---- MODULE Spec2Model ----
(***************************************************************************)
(* Reviewer assignment engine of pr-pairing-tool (src/pr_pairing/pairing.py *)
(* and src/pr_pairing/requirements.py).                                     *)
(*                                                                          *)
(* Developer names are the integers 1..NumDevs, in roster order; 0 is a     *)
(* name that is not in the roster.  A run is one call of assign_reviewers:  *)
(* the inputs are fixed by Init, the actions are the steps of the call.     *)
(***************************************************************************)
EXTENDS Integers, Sequences, FiniteSets, TLC

\* ---------------------------------------------------------------- bounds
NumDevs == 3
MaxReviewers == 2
MaxReqEntries == 2
MaxExclusions == 1
MaxHistory == 1
MaxRuns == 2

\* ------------------------------------------------------ program constants
DEFAULT_KNOWLEDGE_LEVEL == 3
EXPERT_MIN_LEVEL == 4
NOVICE_MAX_LEVEL == 2
DEFAULT_REVIEWERS == 2

ANYONE == "anyone"
EXPERTS_ONLY == "experts-only"
MENTORSHIP == "mentorship"
SIMILAR_LEVELS == "similar-levels"
KnowledgeMode == {ANYONE, EXPERTS_ONLY, MENTORSHIP, SIMILAR_LEVELS}

Names == 1..NumDevs
Universe == 0..NumDevs
Levels == {NOVICE_MAX_LEVEL, DEFAULT_KNOWLEDGE_LEVEL, EXPERT_MIN_LEVEL}
Teams == {"", "frontend", "backend"}

VARIABLES
    developers,              \* roster: name -> Developer record
    history,                 \* History.pairs: dev -> reviewer -> count
    pre_history,             \* History.pairs as passed to the run
    num_reviewers, team_mode, knowledge_mode, balance_mode,
    exclusions,              \* set of <<dev, reviewer>>
    requirements,            \* name -> list of required reviewer names
    pc,                      \* position of the run
    required_assignments, required_reviewers_used,
    all_pairs, sorted_pairs, assigned, current_load,
    iteration, max_iterations,
    current_assignments, idx,
    all_warnings,
    conflicts,
    history_file,            \* the history file of the command-line script
    roster_file,             \* the input CSV of the command-line script
    dry_run, fresh,          \* args.dry_run, args.fresh
    runs,                    \* number of runs of the script started so far
    cli,                     \* the Namespace parse_args returned
    config,                  \* the content of the config file
    args                     \* the Namespace merge_config works on

\* The state of the command-line script around the engine.
main_state == <<history_file, roster_file, dry_run, fresh, runs>>

\* The state of the configuration merge.
config_state == <<cli, config, args>>

vars == <<developers, history, pre_history, num_reviewers, team_mode,
          knowledge_mode, balance_mode, exclusions, requirements, pc,
          required_assignments, required_reviewers_used, all_pairs,
          sorted_pairs, assigned, current_load, iteration, max_iterations,
          current_assignments, idx, all_warnings, conflicts,
          main_state, config_state>>

inputs == <<pre_history, num_reviewers, team_mode, knowledge_mode,
            balance_mode, exclusions, requirements>>

\* ------------------------------------------------------- generic helpers
\* The elements of a set of integers, ascending (roster order).
Ordered(S) ==
    [i \in 1..Cardinality(S) |->
        CHOOSE x \in S : Cardinality({y \in S : y < x}) = i - 1]

\* Python's tuple comparison on equal-length tuples of integers.
LexLess(a, b) ==
    \E i \in 1..Len(a) : a[i] < b[i] /\ \A j \in 1..(i - 1) : a[j] = b[j]

\* Variant of StableSort that puts the later of two elements with equal keys first.
StableSort_reversed_ties(seq, keys) ==
    LET Rank(i) == Cardinality({j \in DOMAIN seq :
                        \/ LexLess(keys[j], keys[i])
                        \/ (~LexLess(keys[i], keys[j]) /\ j > i)}) + 1
    IN  [k \in DOMAIN seq |-> seq[CHOOSE i \in DOMAIN seq : Rank(i) = k]]

\* Python's sorted(seq, key=...): stable, ascending; keys[i] is the key of seq[i].
StableSort(seq, keys) ==
    LET Rank(i) == Cardinality({j \in DOMAIN seq :
                        \/ LexLess(keys[j], keys[i])
                        \/ (~LexLess(keys[i], keys[j]) /\ j < i)}) + 1
    IN  [k \in DOMAIN seq |-> seq[CHOOSE i \in DOMAIN seq : Rank(i) = k]]

\* Variant of Take that stops one element early: seq[:n-1]
Take_one_short(seq, n) == SubSeq(seq, 1, IF n - 1 < Len(seq) THEN n - 1 ELSE Len(seq))

\* seq[:n]
Take(seq, n) == SubSeq(seq, 1, IF n < Len(seq) THEN n ELSE Len(seq))

Range(seq) == {seq[i] : i \in DOMAIN seq}

\* Number of occurrences of x in seq.
Count(seq, x) == Cardinality({i \in DOMAIN seq : seq[i] = x})

Abs(x) == IF x < 0 THEN -x ELSE x

Warning(kind, dev, arg) == [kind |-> kind, dev |-> dev, arg |-> arg]

\* ------------------------------------------------- constraint evaluators
is_same_team(candidate, dev_team) ==
    dev_team # "" /\ developers[candidate].team = dev_team

is_expert(developer) == developers[developer].knowledge_level >= EXPERT_MIN_LEVEL

is_novice(developer) == developers[developer].knowledge_level <= NOVICE_MAX_LEVEL

\* Variant of is_valid_knowledge_pair that lets every reviewer through under experts-only.
is_valid_knowledge_pair_no_expert_check(dev, reviewer, mode) ==
    IF mode = MENTORSHIP THEN (IF is_novice(dev) THEN is_expert(reviewer) ELSE TRUE)
    ELSE TRUE

\* Variant of is_valid_knowledge_pair that lets every reviewer through under mentorship.
is_valid_knowledge_pair_no_mentor_check(dev, reviewer, mode) ==
    IF mode = EXPERTS_ONLY THEN is_expert(reviewer) ELSE TRUE

is_valid_knowledge_pair(dev, reviewer, mode) ==
    IF mode = ANYONE THEN TRUE
    ELSE IF mode = EXPERTS_ONLY THEN is_expert(reviewer)
    ELSE IF mode = MENTORSHIP THEN (IF is_novice(dev) THEN is_expert(reviewer) ELSE TRUE)
    ELSE TRUE

get_knowledge_diff(dev, reviewer, mode) ==
    IF mode = SIMILAR_LEVELS
    THEN Abs(developers[reviewer].knowledge_level - developers[dev].knowledge_level)
    ELSE 0

\* get_knowledge_filter(mode, dev)(candidate)
get_knowledge_filter(mode, dev, candidate) ==
    IF mode = EXPERTS_ONLY THEN is_expert(candidate)
    ELSE IF mode = MENTORSHIP THEN (IF is_novice(dev) THEN is_expert(candidate) ELSE TRUE)
    ELSE TRUE

get_pair_count(h, dev_name, reviewer_name) == h[dev_name][reviewer_name]

\* Variant of update_history that also counts the developer as its own reviewer.
update_history_self(h, dev_name, reviewers) ==
    [h EXCEPT ![dev_name] =
        [r \in Universe |-> h[dev_name][r] + Count(reviewers, r)
                             + (IF r = dev_name /\ reviewers # <<>> THEN 1 ELSE 0)]]

\* Variant of update_history that also counts the pair in the other direction.
update_history_symmetric(h, dev_name, reviewers) ==
    [d \in Universe |-> [r \in Universe |->
        h[d][r] + (IF d = dev_name THEN Count(reviewers, r) ELSE 0)
                + (IF r = dev_name THEN Count(reviewers, d) ELSE 0)]]

\* update_history: one increment per entry of the list.
update_history(h, dev_name, reviewers) ==
    [h EXCEPT ![dev_name] =
        [r \in Universe |-> h[dev_name][r] + Count(reviewers, r)]]

\* get_available_reviewers(developers)[0], as the list of names in roster order
get_available_reviewers == Ordered({d \in Names : developers[d].can_review})

\* Variant of reviewers_by_name that ignores can_review.
reviewers_by_name_all == Names

reviewers_by_name == {d \in Names : developers[d].can_review}

\* --------------------------------------------------------------- warnings
generate_team_warnings(dev, sorted_candidates, n) ==
    LET dev_team == developers[dev].team
        same_team_count ==
            Cardinality({i \in DOMAIN Take(sorted_candidates, n) :
                            is_same_team(sorted_candidates[i], dev_team)})
        available_same_team ==
            Cardinality({i \in DOMAIN sorted_candidates :
                            is_same_team(sorted_candidates[i], dev_team)})
    IN  IF same_team_count < n /\ available_same_team > 0
        THEN <<Warning("only_same_team", dev, same_team_count)>>
        ELSE IF available_same_team = 0 /\ n > 0 /\ dev_team # ""
        THEN <<Warning("no_same_team", dev, 0)>>
        ELSE <<>>

\* `revs' is developer.reviewers, `reviewers' the list of available reviewers.
generate_bucket_team_warnings(developer, revs, reviewers, n) ==
    LET dev_team == developers[developer].team
        assigned_same_team ==
            Cardinality({i \in DOMAIN reviewers :
                /\ reviewers[i] \in Range(revs)
                /\ is_same_team(reviewers[i], dev_team)})
        available_same_team ==
            Cardinality({i \in DOMAIN reviewers :
                /\ reviewers[i] # developer
                /\ is_same_team(reviewers[i], dev_team)})
    IN  IF dev_team = "" THEN <<>>
        ELSE IF assigned_same_team < n /\ available_same_team > 0
        THEN <<Warning("only_same_team", developer, assigned_same_team)>>
        ELSE IF available_same_team = 0 /\ n > 0
        THEN <<Warning("no_same_team", developer, 0)>>
        ELSE <<>>

\* ----------------------------------------------------------- requirements
\* requirements.py check_conflicts: one message per required pair that is excluded.
RECURSIVE ConflictsOfList(_, _, _)
ConflictsOfList(developer, reviewers, excl) ==
    IF reviewers = <<>> THEN <<>>
    ELSE (IF <<developer, Head(reviewers)>> \in excl
          THEN <<Warning("conflict", developer, Head(reviewers))>>
          ELSE <<>>) \o ConflictsOfList(developer, Tail(reviewers), excl)

RECURSIVE ConflictsFrom(_, _, _)
ConflictsFrom(k, reqs, excl) ==
    IF k > NumDevs THEN <<>>
    ELSE ConflictsOfList(k, reqs[k], excl) \o ConflictsFrom(k + 1, reqs, excl)

\* Variant of check_conflicts that looks at the first reviewer of each list only.
check_conflicts_first_only(reqs, excl) ==
    SelectSeq([k \in 1..(NumDevs + 1) |->
                    IF reqs[k - 1] # <<>> /\ <<k - 1, reqs[k - 1][1]>> \in excl
                    THEN Warning("conflict", k - 1, reqs[k - 1][1])
                    ELSE Warning("none", 0, 0)],
              LAMBDA w : w.kind = "conflict")

check_conflicts(reqs, excl) == ConflictsFrom(0, reqs, excl)

\* Variant of RequirementAccepted without the self-requirement check.
RequirementAccepted_self(dev_name, reviewer_name) ==
    /\ reviewer_name \in reviewers_by_name
    /\ <<dev_name, reviewer_name>> \notin exclusions
    /\ is_valid_knowledge_pair(dev_name, reviewer_name, knowledge_mode)

\* Variant of RequirementAccepted without the exclusion check.
RequirementAccepted_excluded(dev_name, reviewer_name) ==
    /\ reviewer_name \in reviewers_by_name
    /\ reviewer_name # dev_name
    /\ is_valid_knowledge_pair(dev_name, reviewer_name, knowledge_mode)

\* The checks of one entry of a required list, in the order of the loop body.
RequirementAccepted(dev_name, reviewer_name) ==
    /\ reviewer_name \in reviewers_by_name
    /\ reviewer_name # dev_name
    /\ <<dev_name, reviewer_name>> \notin exclusions
    /\ is_valid_knowledge_pair(dev_name, reviewer_name, knowledge_mode)

RequirementWarning(dev_name, reviewer_name) ==
    IF reviewer_name \notin reviewers_by_name
    THEN <<Warning("cannot_review", dev_name, reviewer_name)>>
    ELSE IF reviewer_name = dev_name
    THEN <<Warning("self_requirement", dev_name, reviewer_name)>>
    ELSE IF <<dev_name, reviewer_name>> \in exclusions
    THEN <<>>
    ELSE IF ~is_valid_knowledge_pair(dev_name, reviewer_name, knowledge_mode)
    THEN <<Warning("knowledge_constraint", dev_name, reviewer_name)>>
    ELSE <<>>

RECURSIVE RequirementListWarnings(_, _)
RequirementListWarnings(dev_name, required_list) ==
    IF required_list = <<>> THEN <<>>
    ELSE RequirementWarning(dev_name, Head(required_list))
            \o RequirementListWarnings(dev_name, Tail(required_list))

\* A name is a key of the requirement map iff its list is not empty.
RECURSIVE RequirementWarningsFrom(_)
RequirementWarningsFrom(k) ==
    IF k > NumDevs THEN <<>>
    ELSE (IF requirements[k] = <<>> THEN <<>>
          ELSE IF k \notin Names THEN <<Warning("unknown_developer", k, 0)>>
          ELSE RequirementListWarnings(k, requirements[k]))
         \o RequirementWarningsFrom(k + 1)

validate_and_process_requirements ==
    LET accepted == [d \in Names |->
            SelectSeq(requirements[d], LAMBDA r : RequirementAccepted(d, r))]
    IN  [required_assignments |-> accepted,
         required_reviewers_used |-> UNION {Range(accepted[d]) : d \in Names},
         warnings |-> RequirementWarningsFrom(0)]

\* ---------------------------------------------------------------- ranking
\* Variant of team_factor that ranks every candidate alike.
team_factor_ignored(dev, candidate) == 0

team_factor(dev, candidate) ==
    IF team_mode /\ developers[dev].team # ""
    THEN (IF is_same_team(candidate, developers[dev].team) THEN 0 ELSE 1)
    ELSE 0

\* Variant of sort_key that ranks the current load last.
sort_key_load_last(dev, candidate, cur, bal) ==
    IF bal
    THEN <<team_factor(dev, candidate), get_pair_count(history, dev, candidate),
           cur[candidate]>>
    ELSE <<team_factor(dev, candidate), get_pair_count(history, dev, candidate)>>

\* Variant of sort_key that ignores the pairing history.
sort_key_no_history(dev, candidate, cur, bal) ==
    IF bal THEN <<cur[candidate], team_factor(dev, candidate), 0>>
    ELSE <<team_factor(dev, candidate), 0>>

\* build_sort_key(history, dev, current_assignments, ...)(candidate)
sort_key(dev, candidate, cur, bal) ==
    LET pair_count == get_pair_count(history, dev, candidate)
        load == cur[candidate]
        knowledge_factor ==
            IF knowledge_mode = MENTORSHIP
            THEN (IF is_novice(dev) THEN -developers[candidate].knowledge_level ELSE 0)
            ELSE IF knowledge_mode = SIMILAR_LEVELS
            THEN Abs(developers[candidate].knowledge_level - developers[dev].knowledge_level)
            ELSE 0
    IN  IF bal
        THEN <<load, team_factor(dev, candidate), knowledge_factor, pair_count>>
        ELSE <<team_factor(dev, candidate), knowledge_factor, pair_count>>

\* select_reviewers: [selected, warnings]
select_reviewers(dev, candidates, cur, bal) ==
    LET c1 == SelectSeq(candidates, LAMBDA c : c # dev)
        excluded_reviewers == {r \in Universe : <<dev, r>> \in exclusions}
        c2 == SelectSeq(c1, LAMBDA c : c \notin excluded_reviewers)
        required_reviewers == Range(requirements[dev])
        c3 == SelectSeq(c2, LAMBDA c : c \notin required_reviewers)
        filtered == SelectSeq(c3, LAMBDA c : get_knowledge_filter(knowledge_mode, dev, c))
        c4 == IF knowledge_mode # ANYONE THEN filtered ELSE c3
        keys == [i \in DOMAIN c4 |-> sort_key(dev, c4[i], cur, bal)]
        sorted_candidates == StableSort(c4, keys)
    IN  IF c1 = <<>>
        THEN [selected |-> <<>>, warnings |-> <<Warning("no_reviewers_for", dev, 0)>>]
        ELSE IF c2 = <<>>
        THEN [selected |-> <<>>, warnings |-> <<Warning("all_excluded", dev, 0)>>]
        ELSE IF c3 = <<>>
        THEN [selected |-> <<>>, warnings |-> <<Warning("no_reviewers_for", dev, 0)>>]
        ELSE IF knowledge_mode # ANYONE /\ filtered = <<>>
        THEN [selected |-> <<>>,
              warnings |-> <<Warning(IF knowledge_mode = EXPERTS_ONLY THEN "no_experts"
                                     ELSE IF knowledge_mode = MENTORSHIP THEN "no_mentors"
                                     ELSE "no_suitable", dev, 0)>>]
        ELSE [selected |-> Take(sorted_candidates, num_reviewers),
              warnings |-> IF team_mode /\ developers[dev].team # ""
                           THEN generate_team_warnings(dev, sorted_candidates, num_reviewers)
                           ELSE <<>>]

\* ------------------------------------------------------- balanced: pool
PairEligible(dev, reviewer, req) ==
    /\ dev # reviewer
    /\ reviewer \notin Range(req[dev])
    /\ <<dev, reviewer>> \notin exclusions
    /\ is_valid_knowledge_pair(dev, reviewer, knowledge_mode)

MakePair(dev, reviewer) ==
    [dev |-> dev, reviewer |-> reviewer,
     team_match |-> team_factor(dev, reviewer),
     knowledge_diff |-> get_knowledge_diff(dev, reviewer, knowledge_mode),
     pair_count |-> get_pair_count(history, dev, reviewer)]

PairsOfDev(dev, req) ==
    LET rs == Ordered({r \in reviewers_by_name : PairEligible(dev, r, req)})
    IN  [i \in DOMAIN rs |-> MakePair(dev, rs[i])]

RECURSIVE BuildPairs(_, _)
BuildPairs(d, req) ==
    IF d > NumDevs THEN <<>> ELSE PairsOfDev(d, req) \o BuildPairs(d + 1, req)

InitialSort(pairs) ==
    StableSort(pairs, [i \in DOMAIN pairs |->
        <<pairs[i].team_match, pairs[i].knowledge_diff, pairs[i].pair_count>>])

LoadSort(pairs, load) ==
    StableSort(pairs, [i \in DOMAIN pairs |->
        <<pairs[i].team_match, pairs[i].knowledge_diff,
          load[pairs[i].reviewer], pairs[i].pair_count>>])

\* ------------------------------------------------------------------ inputs
Developer(can_review, team, knowledge_level) ==
    [can_review |-> can_review, team |-> team,
     knowledge_level |-> knowledge_level, reviewers |-> <<>>]

EmptyHistory == [d \in Universe |-> [r \in Universe |-> 0]]

\* Histories with at most one pair that was assigned before.
Histories ==
    {EmptyHistory} \cup
    {[EmptyHistory EXCEPT ![p[1]][p[2]] = n] :
        p \in {q \in Universe \X Names : q[1] # q[2]}, n \in 1..MaxHistory}

ExclusionSets ==
    {S \in SUBSET {p \in Names \X Names : p[1] # p[2]} :
        Cardinality(S) <= MaxExclusions}

\* Requirement entries <<dev, reviewer>> in the order they were given.
EntryLists(maxlen, names) ==
    UNION {[1..n -> names \X names] : n \in 0..maxlen}

RequirementMap(entries) ==
    [d \in Universe |->
        LET mine == SelectSeq(entries, LAMBDA e : e[1] = d)
        IN  [i \in DOMAIN mine |-> mine[i][2]]]

RequirementMaps(maxlen, names) ==
    {RequirementMap(e) : e \in EntryLists(maxlen, names)}

\* A file on disk: kind is "missing", "malformed" (json.load or validate_csv
\* rejects it) or "ok"; the other fields are what is written in it.
HistoryFile(kind, pairs, last_run) ==
    [kind |-> kind, pairs |-> pairs, last_run |-> last_run]

RosterFile(kind, can_review, reviewers) ==
    [kind |-> kind, can_review |-> can_review, reviewers |-> reviewers]

\* The Namespace fields merge_config handles; <<>> is None, <<v>> the value v.
Namespace(reviewers, tm, km, hist, verbose, quiet) ==
    [reviewers |-> reviewers, team_mode |-> tm, knowledge_mode |-> km,
     history |-> hist, verbose |-> verbose, quiet |-> quiet]

\* The command-line script and the configuration merge are not running.
MainUnused ==
    /\ history_file = HistoryFile("missing", EmptyHistory, 0)
    /\ roster_file = RosterFile("ok", [d \in Names |-> TRUE], [d \in Names |-> <<>>])
    /\ dry_run = FALSE
    /\ fresh = FALSE
    /\ runs = 0

ConfigUnused ==
    /\ cli = Namespace(<<>>, <<>>, <<>>, <<>>, <<>>, <<>>)
    /\ config = Namespace(<<>>, <<>>, <<>>, <<>>, <<>>, <<>>)
    /\ args = Namespace(<<>>, <<>>, <<>>, <<>>, <<>>, <<>>)

InitRun ==
    /\ pc = "start"
    /\ history = pre_history
    /\ required_assignments = [d \in Names |-> <<>>]
    /\ required_reviewers_used = {}
    /\ all_pairs = <<>>
    /\ sorted_pairs = <<>>
    /\ assigned = [d \in Names |-> <<>>]
    /\ current_load = [d \in Names |-> 0]
    /\ iteration = 0
    /\ max_iterations = 0
    /\ current_assignments = [d \in Names |-> 0]
    /\ idx = 1
    /\ all_warnings = <<>>
    /\ conflicts = <<>>

\* Rosters with every can_review, any exclusions and requirement lists.
InitRequirements ==
    /\ developers \in {[d \in Names |-> Developer(cr[d], "", DEFAULT_KNOWLEDGE_LEVEL)] :
                            cr \in [Names -> BOOLEAN]}
    /\ team_mode = FALSE
    /\ knowledge_mode = ANYONE
    /\ pre_history = EmptyHistory
    /\ exclusions \in ExclusionSets
    /\ requirements \in RequirementMaps(MaxReqEntries, Names)
                        \cup RequirementMaps(1, Universe)

\* Rosters with every knowledge level, under the three restricting modes.
InitKnowledge ==
    /\ developers \in {[d \in Names |-> Developer(d # out, "", kl[d])] :
                            kl \in [Names -> Levels], out \in {0, NumDevs}}
    /\ team_mode = FALSE
    /\ knowledge_mode \in KnowledgeMode \ {ANYONE}
    /\ pre_history = EmptyHistory
    /\ exclusions = {}
    /\ requirements \in RequirementMaps(1, Names)

\* Rosters with teams and a pairing history (team names are interchangeable:
\* the first developer's team, if any, is called "frontend").
InitTeams ==
    /\ developers \in {[d \in Names |-> Developer(TRUE, tm[d], DEFAULT_KNOWLEDGE_LEVEL)] :
                            tm \in {t \in [Names -> Teams] : t[1] # "backend"}}
    /\ team_mode = TRUE
    /\ knowledge_mode = ANYONE
    /\ pre_history \in Histories
    /\ exclusions = {}
    /\ requirements \in RequirementMaps(1, Names)

\* Two-team rosters (the first developer is on "frontend") where one
\* developer may be unable to review and a pair may be excluded.
InitTeamsExcluded ==
    /\ developers \in {[d \in Names |-> Developer(d # out, tm[d], DEFAULT_KNOWLEDGE_LEVEL)] :
                            tm \in {t \in [Names -> Teams \ {""}] : t[1] = "frontend"},
                            out \in Universe}
    /\ team_mode = TRUE
    /\ knowledge_mode = ANYONE
    /\ pre_history = EmptyHistory
    /\ exclusions \in ExclusionSets
    /\ requirements = RequirementMap(<<>>)

\* Two-team rosters with every knowledge level, under the restricting modes.
InitTeamsKnowledge ==
    /\ developers \in {[d \in Names |-> Developer(TRUE, tm[d], kl[d])] :
                            tm \in {t \in [Names -> Teams \ {""}] : t[1] = "frontend"},
                            kl \in [Names -> Levels]}
    /\ team_mode = TRUE
    /\ knowledge_mode \in KnowledgeMode \ {ANYONE}
    /\ pre_history = EmptyHistory
    /\ exclusions = {}
    /\ requirements = RequirementMap(<<>>)

Init ==
    /\ \/ InitRequirements
       \/ InitKnowledge
       \/ InitTeams
       \/ InitTeamsExcluded
       \/ InitTeamsKnowledge
    /\ num_reviewers \in 1..MaxReviewers
    /\ balance_mode \in BOOLEAN
    /\ InitRun
    /\ MainUnused
    /\ ConfigUnused

\* ----------------------------------------------------------------- actions
\* A local of the code is bound with \E x \in {e}, which evaluates e once.
\* The front end of a run: a required pair that is also excluded is fatal.
Resolve ==
    /\ UNCHANGED <<main_state, config_state>>
    /\ pc = "start"
    /\ conflicts' = check_conflicts(requirements, exclusions)
    /\ pc' = IF conflicts' # <<>> THEN "aborted" ELSE "resolved"
    /\ UNCHANGED <<developers, history, inputs, required_assignments,
                   required_reviewers_used, all_pairs, sorted_pairs, assigned,
                   current_load, iteration, max_iterations,
                   current_assignments, idx, all_warnings>>

Called == pc \in {"start", "resolved"}

\* assign_reviewers_bucket, no developer can review.
BucketNoReviewers ==
    /\ UNCHANGED <<main_state, config_state>>
    /\ Called /\ balance_mode
    /\ get_available_reviewers = <<>>
    /\ developers' = [d \in Names |-> [developers[d] EXCEPT !.reviewers = <<>>]]
    /\ all_warnings' = <<Warning("no_reviewers_in_team", 0, 0)>>
    /\ pc' = "done"
    /\ UNCHANGED <<history, inputs, required_assignments, required_reviewers_used,
                   all_pairs, sorted_pairs, assigned, current_load, iteration,
                   max_iterations, current_assignments, idx, conflicts>>

RECURSIVE NoReviewersWarnings(_, _)
NoReviewersWarnings(d, req) ==
    IF d > NumDevs THEN <<>>
    ELSE (IF req[d] = <<>> THEN <<Warning("no_reviewers_for", d, 0)>> ELSE <<>>)
            \o NoReviewersWarnings(d + 1, req)

\* assign_reviewers_bucket, the pair pool is empty.
BucketNoPairs ==
    /\ UNCHANGED <<main_state, config_state>>
    /\ Called /\ balance_mode
    /\ get_available_reviewers # <<>>
    /\ \E v \in {validate_and_process_requirements} :
           /\ BuildPairs(1, v.required_assignments) = <<>>
           /\ required_assignments' = v.required_assignments
           /\ required_reviewers_used' = v.required_reviewers_used
           /\ developers' = [d \in Names |->
                [developers[d] EXCEPT !.reviewers = v.required_assignments[d]]]
           /\ all_warnings' = v.warnings \o NoReviewersWarnings(1, v.required_assignments)
    /\ pc' = "done"
    /\ UNCHANGED <<history, inputs, all_pairs, sorted_pairs, assigned, current_load,
                   iteration, max_iterations, current_assignments, idx, conflicts>>

\* assign_reviewers_bucket up to the greedy loop.
BucketSetup ==
    /\ UNCHANGED <<main_state, config_state>>
    /\ Called /\ balance_mode
    /\ get_available_reviewers # <<>>
    /\ \E v \in {validate_and_process_requirements} :
       \E pairs \in {BuildPairs(1, v.required_assignments)} :
           /\ pairs # <<>>
           /\ required_assignments' = v.required_assignments
           /\ required_reviewers_used' = v.required_reviewers_used
           /\ all_warnings' = v.warnings
           /\ all_pairs' = pairs
           /\ sorted_pairs' = InitialSort(pairs)
           /\ assigned' = v.required_assignments
           /\ current_load' = [r \in Names |->
                                IF r \in v.required_reviewers_used THEN 1 ELSE 0]
           /\ max_iterations' = Len(pairs) * num_reviewers
    /\ iteration' = 0
    /\ pc' = "greedy"
    /\ UNCHANGED <<developers, history, inputs, current_assignments, idx, conflicts>>

\* Variant of GreedyStep that keeps the pair of a developer that is full.
GreedyStep_no_discard ==
    /\ UNCHANGED <<main_state, config_state>>
    /\ pc = "greedy"
    /\ iteration < max_iterations
    /\ sorted_pairs # <<>>
    /\ iteration' = iteration + 1
    /\ LET pair == Head(sorted_pairs)
       IN  IF Len(assigned[pair.dev]) >= num_reviewers
           THEN UNCHANGED <<sorted_pairs, assigned, current_load>>
           ELSE /\ assigned' = [assigned EXCEPT ![pair.dev] = Append(@, pair.reviewer)]
                /\ current_load' = [current_load EXCEPT ![pair.reviewer] = @ + 1]
                /\ sorted_pairs' = LoadSort(Tail(sorted_pairs), current_load')
    /\ UNCHANGED <<developers, history, inputs, pc, required_assignments,
                   required_reviewers_used, all_pairs, max_iterations,
                   current_assignments, idx, all_warnings, conflicts>>

\* One iteration of the greedy loop that takes the head of the pool.
GreedyStep ==
    /\ UNCHANGED <<main_state, config_state>>
    /\ pc = "greedy"
    /\ iteration < max_iterations
    /\ sorted_pairs # <<>>
    /\ iteration' = iteration + 1
    /\ LET pair == Head(sorted_pairs)
           dev_name == pair.dev
           reviewer_name == pair.reviewer
       IN  IF Len(assigned[dev_name]) >= num_reviewers
           THEN /\ sorted_pairs' = Tail(sorted_pairs)
                /\ UNCHANGED <<assigned, current_load>>
           ELSE /\ assigned' = [assigned EXCEPT ![dev_name] = Append(@, reviewer_name)]
                /\ current_load' = [current_load EXCEPT ![reviewer_name] = @ + 1]
                /\ sorted_pairs' = LoadSort(Tail(sorted_pairs), current_load')
    /\ UNCHANGED <<developers, history, inputs, pc, required_assignments,
                   required_reviewers_used, all_pairs, max_iterations,
                   current_assignments, idx, all_warnings, conflicts>>

RECURSIVE BucketWarnings(_, _)
BucketWarnings(d, asg) ==
    IF d > NumDevs THEN <<>>
    ELSE (IF Len(asg[d]) < num_reviewers /\ asg[d] # <<>>
          THEN <<Warning("only_assigned", d, Len(asg[d]))>> ELSE <<>>)
         \o (IF team_mode /\ developers[d].team # ""
             THEN generate_bucket_team_warnings(d, asg[d], get_available_reviewers,
                                                num_reviewers)
             ELSE <<>>)
         \o BucketWarnings(d + 1, asg)

RECURSIVE RecordAll(_, _, _)
RecordAll(h, d, asg) ==
    IF d > NumDevs THEN h
    ELSE RecordAll(update_history(h, d, asg[d]), d + 1, asg)

\* The greedy loop ends (budget spent, or the pool is empty) and the lists
\* are handed to the developers and recorded.
BucketFinish ==
    /\ UNCHANGED <<main_state, config_state>>
    /\ pc = "greedy"
    /\ iteration >= max_iterations \/ sorted_pairs = <<>>
    /\ iteration' = IF iteration < max_iterations THEN iteration + 1 ELSE iteration
    /\ developers' = [d \in Names |-> [developers[d] EXCEPT !.reviewers = assigned[d]]]
    /\ all_warnings' = all_warnings \o BucketWarnings(1, assigned)
    /\ history' = RecordAll(history, 1, assigned)
    /\ pc' = "done"
    /\ UNCHANGED <<inputs, required_assignments, required_reviewers_used, all_pairs,
                   sorted_pairs, assigned, current_load, max_iterations,
                   current_assignments, idx, conflicts>>

\* assign_reviewers with balance_mode false, up to the loop over developers.
NonBalancedSetup ==
    /\ UNCHANGED <<main_state, config_state>>
    /\ Called /\ ~balance_mode
    /\ \E v \in {validate_and_process_requirements} :
           /\ required_assignments' = v.required_assignments
           /\ required_reviewers_used' = v.required_reviewers_used
           /\ all_warnings' = v.warnings
           /\ current_assignments' = [r \in Names |->
                                IF r \in v.required_reviewers_used THEN 1 ELSE 0]
    /\ pc' = "select"
    /\ UNCHANGED <<developers, history, inputs, all_pairs, sorted_pairs, assigned,
                   current_load, iteration, max_iterations, idx, conflicts>>

\* One iteration of the loop over developers.
SelectStep ==
    /\ UNCHANGED <<main_state, config_state>>
    /\ pc = "select"
    /\ \E developer \in {idx} :
       \E reviewers \in {get_available_reviewers} :
       \E dev_requirements \in {required_assignments[developer]} :
       \E res \in {select_reviewers(developer, reviewers, current_assignments,
                                    balance_mode)} :
       \E final_selected \in {dev_requirements \o
                SelectSeq(res.selected, LAMBDA s : s \notin Range(dev_requirements))} :
       \E revs \in {Take(final_selected, num_reviewers)} :
           IF reviewers = <<>>
           THEN /\ developers' = [developers EXCEPT ![developer].reviewers = <<>>]
                /\ all_warnings' = Append(all_warnings,
                                          Warning("no_reviewers_in_team", 0, 0))
                /\ UNCHANGED <<history, current_assignments>>
           ELSE /\ developers' = [developers EXCEPT ![developer].reviewers = revs]
                /\ current_assignments' = [r \in Names |->
                                current_assignments[r] + Count(revs, r)]
                /\ history' = update_history(history, developer, revs)
                /\ all_warnings' = all_warnings \o res.warnings \o
                        (IF Len(revs) < num_reviewers /\ revs # <<>>
                         THEN <<Warning("only_assigned", developer, Len(revs))>>
                         ELSE <<>>)
    /\ idx' = idx + 1
    /\ pc' = IF idx = NumDevs THEN "done" ELSE "select"
    /\ UNCHANGED <<inputs, required_assignments, required_reviewers_used, all_pairs,
                   sorted_pairs, assigned, current_load, iteration, max_iterations,
                   conflicts>>

Next ==
    \/ Resolve
    \/ BucketNoReviewers
    \/ BucketNoPairs
    \/ BucketSetup
    \/ GreedyStep
    \/ BucketFinish
    \/ NonBalancedSetup
    \/ SelectStep

Spec == Init /\ [][Next]_vars

\* ------------------------------------------- the command-line script
\* src/pr_pairing.py: one run is parse_args, load, assign_reviewers (the
\* script's own loop, without requirements and balance mode) and save; runs
\* follow each other on the same two files.  The time of a save is the number
\* of the run.
engine_state == <<pre_history, balance_mode, requirements, required_assignments,
                  required_reviewers_used, all_pairs, sorted_pairs, assigned,
                  current_load, iteration, max_iterations, conflicts>>

EngineUnused ==
    /\ pre_history = EmptyHistory
    /\ balance_mode = FALSE
    /\ requirements = RequirementMap(<<>>)
    /\ required_assignments = [d \in Names |-> <<>>]
    /\ required_reviewers_used = {}
    /\ all_pairs = <<>>
    /\ sorted_pairs = <<>>
    /\ assigned = [d \in Names |-> <<>>]
    /\ current_load = [d \in Names |-> 0]
    /\ iteration = 0
    /\ max_iterations = 0
    /\ conflicts = <<>>

RECURSIVE SumReviews(_, _, _)
SumReviews(h, d, reviewer) ==
    IF d > NumDevs THEN 0 ELSE h[d][reviewer] + SumReviews(h, d + 1, reviewer)

get_total_reviews_assigned(h, reviewer) == SumReviews(h, 0, reviewer)

\* The script's build_sort_key: team factor, knowledge factor and pair count
\* as in the package, then the reviewer's total of reviews.
script_sort_key(developer, candidate, cur) ==
    LET k == sort_key(developer, candidate, cur, FALSE)
    IN  <<k[1], k[2], k[3],
          get_total_reviews_assigned(history, candidate) + cur[candidate]>>

\* The script's select_reviewers: [selected, warnings]
script_select_reviewers(developer, candidates, cur) ==
    LET c1 == SelectSeq(candidates, LAMBDA c : c # developer)
        excluded_reviewers == {r \in Universe : <<developer, r>> \in exclusions}
        c2 == SelectSeq(c1, LAMBDA c : c \notin excluded_reviewers)
        filtered == SelectSeq(c2, LAMBDA c :
                        get_knowledge_filter(knowledge_mode, developer, c))
        c3 == IF knowledge_mode # ANYONE THEN filtered ELSE c2
        keys == [i \in DOMAIN c3 |-> script_sort_key(developer, c3[i], cur)]
        sorted_candidates == StableSort(c3, keys)
    IN  IF c1 = <<>>
        THEN [selected |-> <<>>, warnings |-> <<Warning("no_reviewers_for", developer, 0)>>]
        ELSE IF c2 = <<>>
        THEN [selected |-> <<>>, warnings |-> <<Warning("all_excluded", developer, 0)>>]
        ELSE IF knowledge_mode # ANYONE /\ filtered = <<>>
        THEN [selected |-> <<>>,
              warnings |-> <<Warning(IF knowledge_mode = EXPERTS_ONLY THEN "no_experts"
                                     ELSE IF knowledge_mode = MENTORSHIP THEN "no_mentors"
                                     ELSE "no_suitable", developer, 0)>>]
        ELSE [selected |-> Take(sorted_candidates, num_reviewers),
              warnings |-> IF team_mode /\ developers[developer].team # ""
                           THEN generate_team_warnings(developer, sorted_candidates,
                                                       num_reviewers)
                           ELSE <<>>]

\* load_history: a missing or undecodable file gives an empty History.
load_history(file) == IF file.kind = "ok" THEN file.pairs ELSE EmptyHistory

\* The reviewers column an earlier run left in the CSV.
StaleReviewers == [d \in Names |-> <<(d % NumDevs) + 1>>]

HistoryFiles ==
    {HistoryFile("missing", EmptyHistory, 0)} \cup
    {HistoryFile(k, h, 0) : k \in {"ok", "malformed"}, h \in Histories}

RosterFiles ==
    {RosterFile(k, [d \in Names |-> FALSE], [d \in Names |-> <<>>]) :
        k \in {"missing", "malformed"}} \cup
    {RosterFile("ok", cr, rv) :
        cr \in [Names -> BOOLEAN], rv \in {[d \in Names |-> <<>>], StaleReviewers}}

InitMain ==
    /\ pc = "main_idle"
    /\ history_file \in HistoryFiles
    /\ roster_file \in RosterFiles
    /\ dry_run = FALSE
    /\ fresh = FALSE
    /\ runs = 0
    /\ developers = [d \in Names |-> Developer(FALSE, "", DEFAULT_KNOWLEDGE_LEVEL)]
    /\ history = EmptyHistory
    /\ num_reviewers = 1
    /\ team_mode = FALSE
    /\ knowledge_mode = ANYONE
    /\ exclusions = {}
    /\ current_assignments = [d \in Names |-> 0]
    /\ idx = 1
    /\ all_warnings = <<>>
    /\ EngineUnused
    /\ ConfigUnused

\* parse_args of a new run (-t and -k are left at their defaults).
MainParse ==
    /\ pc = "main_idle"
    /\ runs < MaxRuns
    /\ runs' = runs + 1
    /\ dry_run' \in BOOLEAN
    /\ fresh' \in BOOLEAN
    /\ num_reviewers' \in 1..MaxReviewers
    /\ exclusions' \in {{}, {<<1, NumDevs>>}}
    /\ pc' = "main_parsed"
    /\ UNCHANGED <<developers, history, team_mode, knowledge_mode, current_assignments,
                   idx, all_warnings, history_file, roster_file, engine_state,
                   config_state>>

\* main up to the call of assign_reviewers: an unreadable or invalid CSV ends
\* the run; dry-run and fresh start from an empty History.
MainLoad ==
    /\ pc = "main_parsed"
    /\ IF roster_file.kind # "ok"
       THEN /\ pc' = "main_idle"
            /\ UNCHANGED <<developers, history, current_assignments, idx, all_warnings>>
       ELSE /\ developers' = [d \in Names |->
                    Developer(roster_file.can_review[d], "", DEFAULT_KNOWLEDGE_LEVEL)]
            /\ history' = IF dry_run \/ fresh THEN EmptyHistory
                          ELSE load_history(history_file)
            /\ current_assignments' = [d \in Names |-> 0]
            /\ idx' = 1
            /\ all_warnings' = <<>>
            /\ pc' = "main_assign"
    /\ UNCHANGED <<num_reviewers, team_mode, knowledge_mode, exclusions, main_state,
                   engine_state, config_state>>

\* One iteration of the loop of the script's assign_reviewers.
MainAssignStep ==
    /\ pc = "main_assign"
    /\ \E developer \in {idx} :
       \E reviewers_list \in {get_available_reviewers} :
       \E res \in {script_select_reviewers(developer, reviewers_list,
                                           current_assignments)} :
           IF reviewers_list = <<>>
           THEN /\ developers' = [developers EXCEPT ![developer].reviewers = <<>>]
                /\ all_warnings' = Append(all_warnings,
                                          Warning("no_reviewers_in_team", 0, 0))
                /\ UNCHANGED <<history, current_assignments>>
           ELSE /\ developers' = [developers EXCEPT ![developer].reviewers = res.selected]
                /\ current_assignments' = [r \in Names |->
                                current_assignments[r] + Count(res.selected, r)]
                /\ history' = update_history(history, developer, res.selected)
                /\ all_warnings' = all_warnings \o res.warnings \o
                        (IF Len(res.selected) < num_reviewers /\ res.selected # <<>>
                         THEN <<Warning("only_assigned", developer, Len(res.selected))>>
                         ELSE <<>>)
    /\ idx' = idx + 1
    /\ pc' = IF idx = NumDevs THEN "main_save" ELSE "main_assign"
    /\ UNCHANGED <<num_reviewers, team_mode, knowledge_mode, exclusions, main_state,
                   engine_state, config_state>>

\* Variant of MainSave that writes both files in dry-run mode too.
MainSave_always ==
    /\ pc = "main_save"
    /\ roster_file' = RosterFile("ok", roster_file.can_review,
                                 [d \in Names |-> developers[d].reviewers])
    /\ history_file' = HistoryFile("ok", history, runs)
    /\ pc' = "main_idle"
    /\ UNCHANGED <<developers, history, num_reviewers, team_mode, knowledge_mode,
                   exclusions, current_assignments, idx, all_warnings, dry_run,
                   fresh, runs, engine_state, config_state>>

\* The end of main: the summary of a dry run, or save_csv and save_history.
MainSave ==
    /\ pc = "main_save"
    /\ IF dry_run
       THEN UNCHANGED <<roster_file, history_file>>
       ELSE /\ roster_file' = RosterFile("ok", roster_file.can_review,
                                         [d \in Names |-> developers[d].reviewers])
            /\ history_file' = HistoryFile("ok", history, runs)
    /\ pc' = "main_idle"
    /\ UNCHANGED <<developers, history, num_reviewers, team_mode, knowledge_mode,
                   exclusions, current_assignments, idx, all_warnings, dry_run,
                   fresh, runs, engine_state, config_state>>

NextMain ==
    \/ MainParse
    \/ MainLoad
    \/ MainAssignStep
    \/ MainSave

SpecMain == InitMain /\ [][NextMain]_vars

\* ------------------------------------------------ configuration merge
\* src/pr_pairing/config.py: parse_args leaves an argument that was not given
\* at None; merge_config fills the Namespace from the config file and the
\* defaults.
DEFAULT_HISTORY == "./pairing_history.json"

MergedKeys == {"reviewers", "team_mode", "knowledge_mode", "history"}

\* defaults[key] of merge_config
defaults(key) ==
    IF key = "reviewers" THEN DEFAULT_REVIEWERS
    ELSE IF key = "team_mode" THEN FALSE
    ELSE IF key = "knowledge_mode" THEN ANYONE
    ELSE DEFAULT_HISTORY

\* normalize_bool on the text of the value.
normalize_bool(value) == value \in {"true", "1", "yes", "y"}

\* The value merge_config takes from the config file for a key.
value_from_config(key, value) ==
    IF key = "team_mode" THEN normalize_bool(value) ELSE value

\* One pass of the loop of merge_config over config_key_to_arg.
merge_key(key, cfg, a) ==
    IF a[key] = <<>>
    THEN (IF cfg[key] # <<>> THEN <<value_from_config(key, cfg[key][1])>>
          ELSE <<defaults(key)>>)
    ELSE (IF a[key] = <<defaults(key)>> /\ cfg[key] # <<>>
          THEN <<value_from_config(key, cfg[key][1])>>
          ELSE a[key])

merge_config(cfg, a) ==
    Namespace(merge_key("reviewers", cfg, a),
              merge_key("team_mode", cfg, a),
              merge_key("knowledge_mode", cfg, a),
              merge_key("history", cfg, a),
              IF a.verbose = <<>>
              THEN (IF cfg.verbose # <<>> THEN cfg.verbose ELSE <<0>>)
              ELSE a.verbose,
              IF a.quiet = <<>> THEN <<0>> ELSE a.quiet)

\* What the command line can leave in the Namespace.
CliNamespaces ==
    {Namespace(r, t, k, h, v, q) :
        r \in {<<>>} \cup {<<n>> : n \in 1..(MaxReviewers + 1)},
        t \in {<<>>, <<TRUE>>},
        k \in {<<>>, <<ANYONE>>, <<EXPERTS_ONLY>>},
        h \in {<<>>, <<DEFAULT_HISTORY>>, <<"team_history.json">>},
        v \in {<<>>, <<1>>},
        q \in {<<>>, <<1>>}}

\* What the config file can hold (no file: every key is missing).
ConfigFiles ==
    {Namespace(r, t, k, h, v, <<>>) :
        r \in {<<>>} \cup {<<n>> : n \in 1..(MaxReviewers + 1)},
        t \in {<<>>, <<"true">>, <<"yes">>, <<"false">>},
        k \in {<<>>, <<MENTORSHIP>>},
        h \in {<<>>, <<"config_history.json">>},
        v \in {<<>>, <<2>>}}

InitConfig ==
    /\ pc = "config_parsed"
    /\ cli \in CliNamespaces
    /\ config \in ConfigFiles
    /\ args = cli
    /\ developers = [d \in Names |-> Developer(FALSE, "", DEFAULT_KNOWLEDGE_LEVEL)]
    /\ history = EmptyHistory
    /\ num_reviewers = 1
    /\ team_mode = FALSE
    /\ knowledge_mode = ANYONE
    /\ exclusions = {}
    /\ current_assignments = [d \in Names |-> 0]
    /\ idx = 1
    /\ all_warnings = <<>>
    /\ EngineUnused
    /\ MainUnused

MergeConfig ==
    /\ pc = "config_parsed"
    /\ args' = merge_config(config, args)
    /\ pc' = "config_merged"
    /\ UNCHANGED <<cli, config, developers, history, num_reviewers, team_mode,
                   knowledge_mode, exclusions, current_assignments, idx,
                   all_warnings, engine_state, main_state>>

NextConfig == MergeConfig

SpecConfig == InitConfig /\ [][NextConfig]_vars

\* ------------------------------------------- select_reviewers on its own
\* One call of select_reviewers with balance_mode true: the developer idx,
\* the candidates that can review, and any current_assignments.
SelectUnused ==
    /\ pre_history = history
    /\ required_assignments = [d \in Names |-> <<>>]
    /\ required_reviewers_used = {}
    /\ all_pairs = <<>>
    /\ sorted_pairs = <<>>
    /\ assigned = [d \in Names |-> <<>>]
    /\ current_load = [d \in Names |-> 0]
    /\ iteration = 0
    /\ max_iterations = 0
    /\ conflicts = <<>>
    /\ all_warnings = <<>>

\* Every knowledge level under every knowledge mode.
InitSelectKnowledge ==
    /\ developers \in {[d \in Names |-> Developer(TRUE, "", kl[d])] :
                            kl \in [Names -> Levels]}
    /\ team_mode = FALSE
    /\ knowledge_mode \in KnowledgeMode
    /\ history = EmptyHistory
    /\ exclusions = {}
    /\ requirements = RequirementMap(<<>>)
    /\ num_reviewers \in 1..MaxReviewers
    /\ idx \in Names

\* Two teams, a pairing history, a developer that may be unable to review.
InitSelectTeams ==
    /\ developers \in {[d \in Names |-> Developer(d # out, tm[d], DEFAULT_KNOWLEDGE_LEVEL)] :
                            tm \in {t \in [Names -> Teams \ {""}] : t[1] = "frontend"},
                            out \in {0, NumDevs}}
    /\ team_mode = TRUE
    /\ knowledge_mode = ANYONE
    /\ history \in Histories
    /\ exclusions = {}
    /\ requirements = RequirementMap(<<>>)
    /\ num_reviewers \in 1..MaxReviewers
    /\ idx \in Names

\* Exclusions and requirement lists.
InitSelectRequirements ==
    /\ developers = [d \in Names |-> Developer(TRUE, "", DEFAULT_KNOWLEDGE_LEVEL)]
    /\ team_mode = FALSE
    /\ knowledge_mode = ANYONE
    /\ history = EmptyHistory
    /\ exclusions \in ExclusionSets
    /\ requirements \in RequirementMaps(1, Names)
    /\ num_reviewers \in 1..MaxReviewers
    /\ idx \in Names

\* Teams, knowledge levels and history counts together, for the first developer.
InitSelectAll ==
    /\ developers \in {[d \in Names |-> Developer(TRUE, tm[d], kl[d])] :
                            tm \in {t \in [Names -> Teams \ {""}] : t[1] = "frontend"},
                            kl \in [Names -> Levels]}
    /\ team_mode = TRUE
    /\ knowledge_mode = SIMILAR_LEVELS
    /\ history \in {h \in Histories : \A d \in Universe \ {1} : h[d] = EmptyHistory[d]}
    /\ exclusions = {}
    /\ requirements = RequirementMap(<<>>)
    /\ num_reviewers = 1
    /\ idx = 1

InitSelect ==
    /\ pc = "select_call"
    /\ balance_mode = TRUE
    /\ \/ InitSelectKnowledge
       \/ InitSelectTeams
       \/ InitSelectRequirements
       \/ InitSelectAll
    /\ current_assignments \in [Names -> 0..MaxReviewers]
    /\ SelectUnused
    /\ MainUnused
    /\ ConfigUnused

\* selected, warnings = select_reviewers(dev, candidates, ..., balance_mode)
SelectCall ==
    /\ pc = "select_call"
    /\ \E res \in {select_reviewers(idx, get_available_reviewers,
                                    current_assignments, balance_mode)} :
           /\ developers' = [developers EXCEPT ![idx].reviewers = res.selected]
           /\ all_warnings' = res.warnings
    /\ pc' = "select_returned"
    /\ UNCHANGED <<history, inputs, required_assignments, required_reviewers_used,
                   all_pairs, sorted_pairs, assigned, current_load, iteration,
                   max_iterations, current_assignments, idx, conflicts,
                   main_state, config_state>>

NextSelect == SelectCall

SpecSelect == InitSelect /\ [][NextSelect]_vars

\* ------------------------------------------------------------------ claims
Reviewers(d) == developers[d].reviewers

\* The roster members that may review d: can review, not d, not excluded for d,
\* compatible with d under the knowledge mode.
Eligible(d) ==
    {r \in Names \ {d} :
        /\ developers[r].can_review
        /\ <<d, r>> \notin exclusions
        /\ is_valid_knowledge_pair(d, r, knowledge_mode)}

\* The entries of d's required list that pass the eligibility checks.
ValidRequired(d) == {r \in Range(requirements[d]) : r \in Eligible(d)}

\* Number of developers the reviewer r is assigned to.
Load(r) == Cardinality({d \in Names : r \in Range(Reviewers(d))})

HasConflict ==
    \E d \in Universe : \E i \in DOMAIN requirements[d] :
        <<d, requirements[d][i]>> \in exclusions

\* C1: no developer's own name is ever in that developer's reviewers list.
C1_NoSelfReview == \A d \in Names : d \notin Range(Reviewers(d))

C1_Witness ==
    /\ pc = "done"
    /\ \E d \in Names :
        /\ d \in Range(requirements[d])
        /\ developers[d].can_review
        /\ Len(Reviewers(d)) = num_reviewers

\* C2: after the run every developer has at most num_reviewers reviewers.
C2_QuotaUpperBound ==
    pc = "done" => \A d \in Names : Len(Reviewers(d)) <= num_reviewers

\* C3: after the run a developer with at least num_reviewers eligible reviewers
\* has exactly num_reviewers reviewers.
C3_QuotaEquality ==
    pc = "done" =>
        \A d \in Names :
            Cardinality(Eligible(d)) >= num_reviewers
                => Len(Reviewers(d)) = num_reviewers

\* C4: an excluded reviewer is never in the developer's reviewers list, also
\* when the excluded pair is listed as a requirement.
C4_ExclusionRespected ==
    \A p \in exclusions : p[2] \notin Range(Reviewers(p[1]))

C4_Witness ==
    /\ pc = "done"
    /\ \E p \in exclusions :
        /\ p[2] \in Range(requirements[p[1]])
        /\ developers[p[2]].can_review
        /\ Reviewers(p[1]) # <<>>

\* C5: after the run every requirement entry that passes the eligibility
\* checks is in the developer's reviewers list.
C5_RequirementFulfilled ==
    pc = "done" =>
        \A d \in Names : \A r \in ValidRequired(d) : r \in Range(Reviewers(d))

\* C6: in balance mode, with every developer able to review every other one
\* (no exclusions, mode anyone, no teams, empty history, no requirements), the
\* loads of any two reviewers differ by at most 1.
C6_LoadSpread ==
    (/\ pc = "done"
     /\ balance_mode
     /\ knowledge_mode = ANYONE
     /\ exclusions = {}
     /\ pre_history = EmptyHistory
     /\ \A d \in Names : developers[d].can_review /\ developers[d].team = ""
     /\ \A d \in Universe : requirements[d] = <<>>)
        => \A r1, r2 \in Names : Load(r1) - Load(r2) <= 1

\* C7: after the run the history count of every assigned pair is its pre-run
\* value plus 1.
C7_HistoryRecorded ==
    pc = "done" =>
        \A d \in Names : \A r \in Range(Reviewers(d)) :
            history[d][r] = pre_history[d][r] + 1

C9_OnlyEligibleReviewers ==
    /\ \A d \in Names : \A r \in Range(Reviewers(d)) :
            r \in Names /\ developers[r].can_review
    /\ pc = "done" =>
            \A d \in Names :
                ~developers[d].can_review /\ Eligible(d) # {} => Reviewers(d) # <<>>

C9_Witness ==
    /\ pc = "done"
    /\ \E d \in Names :
        /\ ~developers[d].can_review
        /\ Reviewers(d) # <<>>
        /\ \E r \in Range(requirements[d]) : r \notin Names \/ ~developers[r].can_review

\* C10: under experts-only every assigned reviewer has knowledge level >= 4.
C10_ExpertsOnly ==
    knowledge_mode = EXPERTS_ONLY =>
        \A d \in Names : \A r \in Range(Reviewers(d)) :
            r \in Names /\ developers[r].knowledge_level >= EXPERT_MIN_LEVEL

C10_Witness ==
    /\ pc = "done"
    /\ knowledge_mode = EXPERTS_ONLY
    /\ \E d \in Names :
        /\ Reviewers(d) # <<>>
        /\ \E r \in Range(requirements[d]) :
                r # d /\ developers[r].can_review
                      /\ developers[r].knowledge_level < EXPERT_MIN_LEVEL

\* d is an expert and no other roster member is.
OnlyExpert(d) == is_expert(d) /\ \A r \in Names \ {d} : ~is_expert(r)

\* C11: under experts-only, after the run a developer that is the only expert
\* of the roster has no reviewers and a "no experts available" warning.
C11_OnlyExpertWarned ==
    (pc = "done" /\ knowledge_mode = EXPERTS_ONLY) =>
        \A d \in Names :
            OnlyExpert(d) =>
                /\ Reviewers(d) = <<>>
                /\ Warning("no_experts", d, 0) \in Range(all_warnings)

\* C12: under mentorship every reviewer of a novice developer is an expert,
\* required reviewers included.
C12_MentorshipNoviceGetsExpert ==
    knowledge_mode = MENTORSHIP =>
        \A d \in Names :
            is_novice(d) => \A r \in Range(Reviewers(d)) : r \in Names /\ is_expert(r)

C12_Witness ==
    /\ pc = "done"
    /\ knowledge_mode = MENTORSHIP
    /\ \E d \in Names :
        /\ is_novice(d)
        /\ Reviewers(d) # <<>>
        /\ \E r \in Range(requirements[d]) :
                r # d /\ developers[r].can_review /\ ~is_expert(r)

\* C13: under similar-levels, select_reviewers selects no candidate whose
\* knowledge level differs from the developer's by more than 1 (the reviewers
\* of a developer in non-balanced mode that are not required ones are the
\* selection of select_reviewers).
C13_SimilarLevelsWindow ==
    (knowledge_mode = SIMILAR_LEVELS /\ ~balance_mode) =>
        \A d \in Names : \A r \in Range(Reviewers(d)) \ Range(required_assignments[d]) :
            Abs(developers[r].knowledge_level - developers[d].knowledge_level) <= 1

\* C14: with team_mode on, a developer with a team has no reviewer of another
\* team that was not required while a same-team reviewer eligible for that
\* developer is not among the developer's reviewers.
C14_TeamPriority ==
    team_mode =>
        \A d \in Names :
            developers[d].team # "" =>
                \A r \in Range(Reviewers(d)) \ Range(required_assignments[d]) :
                    ~is_same_team(r, developers[d].team) =>
                        \A s \in Eligible(d) :
                            is_same_team(s, developers[d].team)
                                => s \in Range(Reviewers(d))

C14_Witness ==
    /\ pc = "done"
    /\ team_mode
    /\ \E d \in Names :
        /\ developers[d].team # ""
        /\ \E r \in Range(Reviewers(d)) \ Range(required_assignments[d]) :
                ~is_same_team(r, developers[d].team)
        /\ \E s \in Eligible(d) : is_same_team(s, developers[d].team)
    /\ \E d \in Names :
        /\ \E r \in Range(Reviewers(d)) : ~is_same_team(r, developers[d].team)
        /\ \E s \in Names \ {d} :
                is_same_team(s, developers[d].team) /\ s \notin Eligible(d)

\* Position of x in seq.
Pos(seq, x) == CHOOSE i \in DOMAIN seq : seq[i] = x

\* The developer the loop of assign_reviewers has just handled.
LastSelected == idx - 1

\* The values the last call of select_reviewers saw.
LoadBefore(r) == current_assignments[r] - Count(Reviewers(LastSelected), r)
CountBefore(r) == history[LastSelected][r] - Count(Reviewers(LastSelected), r)
KnowledgeFactor(d, c) == sort_key(d, c, current_assignments, FALSE)[2]

\* b and c are candidates of d that differ in nothing but the history count.
EqualButHistory(d, b, c) ==
    /\ b \in Eligible(d) \ Range(requirements[d])
    /\ c \in Eligible(d) \ Range(requirements[d])
    /\ team_factor(d, b) = team_factor(d, c)
    /\ KnowledgeFactor(d, b) = KnowledgeFactor(d, c)

\* C15: of two candidates of a developer that are equal in team match,
\* knowledge factor and current load, the one with the strictly lower history
\* count comes first: select_reviewers does not select the other without it and
\* places it earlier (as called by assign_reviewers, and with its default key
\* that starts with the load), and in the pool of balanced mode its pair
\* precedes the other's pair.
C15_HistoryAvoidance ==
    /\ (~balance_mode /\ pc \in {"select", "done"} /\ idx > 1) =>
        \A b, c \in Names :
            (/\ EqualButHistory(LastSelected, b, c)
             /\ LoadBefore(b) = LoadBefore(c)
             /\ CountBefore(c) < CountBefore(b)
             /\ b \in Range(Reviewers(LastSelected)))
                => /\ c \in Range(Reviewers(LastSelected))
                   /\ Pos(Reviewers(LastSelected), c) < Pos(Reviewers(LastSelected), b)
    /\ pc = "select" =>
        LET sel == select_reviewers(idx, get_available_reviewers,
                                    current_assignments, TRUE).selected
        IN  \A b, c \in Names :
                (/\ EqualButHistory(idx, b, c)
                 /\ current_assignments[b] = current_assignments[c]
                 /\ history[idx][c] < history[idx][b]
                 /\ b \in Range(sel))
                    => c \in Range(sel) /\ Pos(sel, c) < Pos(sel, b)
    /\ pc = "greedy" =>
        \A i, j \in DOMAIN sorted_pairs :
            (/\ sorted_pairs[i].dev = sorted_pairs[j].dev
             /\ sorted_pairs[i].team_match = sorted_pairs[j].team_match
             /\ sorted_pairs[i].knowledge_diff = sorted_pairs[j].knowledge_diff
             /\ current_load[sorted_pairs[i].reviewer] = current_load[sorted_pairs[j].reviewer]
             /\ sorted_pairs[j].pair_count < sorted_pairs[i].pair_count)
                => j < i

\* select_reviewers took both candidates, against the roster order.
C15_Witness ==
    /\ ~balance_mode /\ pc \in {"select", "done"} /\ idx > 1
    /\ \E b, c \in Names :
        /\ b < c
        /\ EqualButHistory(LastSelected, b, c)
        /\ LoadBefore(b) = LoadBefore(c)
        /\ CountBefore(c) < CountBefore(b)
        /\ b \in Range(Reviewers(LastSelected))
        /\ Pos(Reviewers(LastSelected), c) < Pos(Reviewers(LastSelected), b)

\* C19: after a run in balanced mode every developer with no reviewers and no
\* required assignments has a "No reviewers available for <dev>" warning.
C19_ZeroReviewerWarning ==
    (pc = "done" /\ balance_mode) =>
        \A d \in Names :
            (Reviewers(d) = <<>> /\ required_assignments[d] = <<>>)
                => Warning("no_reviewers_for", d, 0) \in Range(all_warnings)

\* C20: after the run every developer with at least one and fewer than
\* num_reviewers reviewers has an "Only assigned k/num_reviewers" warning.
C20_PartialWarning ==
    pc = "done" =>
        \A d \in Names :
            (Reviewers(d) # <<>> /\ Len(Reviewers(d)) < num_reviewers)
                => Warning("only_assigned", d, Len(Reviewers(d))) \in Range(all_warnings)

\* C16: a dry run writes neither the history file nor the roster CSV: no step
\* of a run with --dry-run changes either file, whatever they contain.
C16_DryRunFrame ==
    [][dry_run => (history_file' = history_file /\ roster_file' = roster_file)]_vars

\* A dry run has ended with assignments that are in neither file.
C16_Witness ==
    /\ pc = "main_idle"
    /\ dry_run
    /\ \E d \in Names :
        /\ developers[d].reviewers # <<>>
        /\ developers[d].reviewers # roster_file.reviewers[d]
        /\ roster_file.reviewers[d] # <<>>
    /\ history_file.kind = "ok"
    /\ history # history_file.pairs

\* C17: a run without --fresh never lowers a count written in the history
\* file, whatever the file contained when the run loaded it.
C17_PersistedHistoryMonotone ==
    [][~fresh => \A d \in Universe : \A r \in Universe :
                    history_file'.pairs[d][r] >= history_file.pairs[d][r]]_vars

\* C18: after merge_config each of reviewers, team_mode, knowledge_mode and
\* history is the command-line value when one was given, else the config
\* file's value when it has one, else the default.
C18_CliPrecedence ==
    pc = "config_merged" =>
        \A key \in MergedKeys :
            IF cli[key] # <<>> THEN args[key] = cli[key]
            ELSE IF config[key] # <<>>
                 THEN args[key] = <<value_from_config(key, config[key][1])>>
                 ELSE args[key] = <<defaults(key)>>

\* C21: the greedy loop ends with the pool exhausted within its budget of
\* len(pool) * num_reviewers iterations: every iteration that finds a pair
\* removes it, and the budget is never spent while a pair is left.
C21_GreedyTerminates ==
    /\ pc = "greedy" =>
        /\ iteration + Len(sorted_pairs) = Len(all_pairs)
        /\ iteration >= max_iterations => sorted_pairs = <<>>
    /\ (pc = "done" /\ balance_mode /\ all_pairs # <<>>) =>
        /\ sorted_pairs = <<>>
        /\ iteration <= max_iterations
        /\ iteration <= Len(all_pairs) + 1

\* The loop has ended after discarding the pair of a developer that was full.
C21_Witness ==
    /\ pc = "done" /\ balance_mode
    /\ Len(all_pairs) > 1
    /\ \E i \in DOMAIN all_pairs :
            all_pairs[i].reviewer \notin Range(Reviewers(all_pairs[i].dev))
    /\ iteration = max_iterations

\* Number of developers whose list in the greedy loop contains r.
AssignedLoad(r) == Cardinality({d \in Names : r \in Range(assigned[d])})

\* C22: in balanced mode, before the greedy loop and after each iteration,
\* current_load[r] is the number of developers whose assigned list contains r.
C22_LoadCounter ==
    pc = "greedy" => \A r \in Names : current_load[r] = AssignedLoad(r)

\* validate_and_process_requirements has returned.
ValidationRan ==
    \/ pc \in {"greedy", "select"}
    \/ pc = "done" /\ (~balance_mode \/ get_available_reviewers # <<>>)

\* Some returned warning names the requirement entry (d, r).
EntryWarned(d, r) ==
    \E i \in DOMAIN all_warnings :
        /\ all_warnings[i].kind \in {"cannot_review", "self_requirement",
                                     "knowledge_constraint"}
        /\ all_warnings[i].dev = d
        /\ all_warnings[i].arg = r

\* C23: every requirement entry of a roster member that
\* validate_and_process_requirements drops has a warning that names it.
C23_DroppedRequirementWarned ==
    ValidationRan =>
        \A d \in Names :
            \A r \in Range(requirements[d]) \ Range(required_assignments[d]) :
                EntryWarned(d, r)

\* The candidates of select_reviewers for d that pass its filters: not d, not
\* excluded for d, not in d's requirement list, let through by the knowledge filter.
Passed(d) ==
    {c \in Range(get_available_reviewers) \ {d} :
        /\ <<d, c>> \notin exclusions
        /\ c \notin Range(requirements[d])
        /\ knowledge_mode # ANYONE => get_knowledge_filter(knowledge_mode, d, c)}

\* C24: select_reviewers called with balance_mode true never selects a candidate
\* while another candidate that passed the same filters and has a strictly
\* lower current_assignments count is left unselected, whatever their team,
\* knowledge level and history count.
C24_LoadFirst ==
    (pc = "select_returned" /\ balance_mode) =>
        \A c \in Range(Reviewers(idx)) :
            \A b \in Passed(idx) \ Range(Reviewers(idx)) :
                current_assignments[c] <= current_assignments[b]

\* The less loaded candidate was selected although the one left out is on the
\* developer's team and was paired with the developer less often.
C24_Witness ==
    /\ pc = "select_returned" /\ balance_mode /\ team_mode
    /\ \E c \in Range(Reviewers(idx)) :
       \E b \in Passed(idx) \ Range(Reviewers(idx)) :
           /\ current_assignments[c] < current_assignments[b]
           /\ ~is_same_team(c, developers[idx].team)
           /\ is_same_team(b, developers[idx].team)
           /\ history[idx][c] > history[idx][b]

\* The key the balanced loop sorts a pair of the pool by under the loads load.
PairKey(p, load) == <<p.team_match, p.knowledge_diff, load[p.reviewer], p.pair_count>>

\* The pair the balanced loop assigns next, if any.
NextAssigned(p) ==
    /\ pc = "greedy" /\ iteration < max_iterations /\ sorted_pairs # <<>>
    /\ p = sorted_pairs[1]
    /\ Len(assigned[p.dev]) < num_reviewers

\* The names select_reviewers chose for d, in order: d's list without its
\* validated required reviewers.
Chosen(d) == SelectSeq(Reviewers(d), LAMBDA r : r \notin Range(required_assignments[d]))

\* The key the last call of select_reviewers ranked candidate c by.
KeyBefore(c) ==
    <<team_factor(LastSelected, c), KnowledgeFactor(LastSelected, c), CountBefore(c)>>

\* In non-balanced mode, of two candidates of the developer just handled with
\* equal keys, the one earlier in the roster is selected first.
SelectTieByRoster ==
    (pc \in {"select", "done"} /\ ~balance_mode /\ idx > 1) =>
        LET chosen == Chosen(LastSelected)
        IN  /\ \A i, j \in DOMAIN chosen :
                    (i < j /\ KeyBefore(chosen[i]) = KeyBefore(chosen[j]))
                        => chosen[i] < chosen[j]
            /\ \A c \in Range(chosen) :
                    \A b \in Passed(LastSelected) \ Range(chosen) :
                        KeyBefore(b) = KeyBefore(c) => c < b

\* In balanced mode the pair assigned next is, among the pending pairs of
\* the same developer with an equal key, the one with the earliest reviewer.
BalancedTieByRoster ==
    \A i \in DOMAIN sorted_pairs :
        (NextAssigned(sorted_pairs[1]) /\ sorted_pairs[i].dev = sorted_pairs[1].dev
            /\ PairKey(sorted_pairs[i], current_load) = PairKey(sorted_pairs[1], current_load))
        => sorted_pairs[1].reviewer <= sorted_pairs[i].reviewer

\* C25 (as stated): of two candidates with equal sort keys the one that comes
\* earlier in the roster is selected first, in both balance modes, so equal
\* inputs give identical reviewer lists, histories and warnings.
C25_TieByRoster ==
    /\ SelectTieByRoster
    /\ BalancedTieByRoster

\* The first sort of the balanced pool breaks ties in roster order.
InitialTieByRoster ==
    (pc = "greedy" /\ iteration = 0) =>
        \A i, j \in DOMAIN sorted_pairs :
            (i < j /\ PairKey(sorted_pairs[i], [r \in Names |-> 0])
                        = PairKey(sorted_pairs[j], [r \in Names |-> 0]))
                => Pos(all_pairs, sorted_pairs[i]) < Pos(all_pairs, sorted_pairs[j])

\* A re-sort of the balanced pool keeps pairs with equal keys in the order
\* the previous sort left them in.
ResortKeepsTies ==
    (pc = "greedy" /\ pc' = "greedy") =>
        \A i, j \in DOMAIN sorted_pairs' :
            (i < j /\ PairKey(sorted_pairs'[i], current_load')
                        = PairKey(sorted_pairs'[j], current_load'))
                => Pos(sorted_pairs, sorted_pairs'[i]) < Pos(sorted_pairs, sorted_pairs'[j])

\* C25 (amended): of two candidates with equal sort keys the one that comes
\* earlier in the list being sorted is selected first: the roster in
\* non-balanced mode and in the first sort of the balanced pool, the order the
\* previous sort left in every re-sort of the balanced pool.
C25_TieByListOrder ==
    /\ [](SelectTieByRoster /\ InitialTieByRoster)
    /\ [][ResortKeepsTies]_vars

\* A balanced run is about to assign a pair although a pending pair of the
\* same developer with an equal key has an earlier reviewer: the previous
\* sort left them in that order.
C25_Witness ==
    /\ pc = "greedy" /\ iteration > 0
    /\ \E i \in DOMAIN sorted_pairs :
           /\ NextAssigned(sorted_pairs[1])
           /\ sorted_pairs[i].dev = sorted_pairs[1].dev
           /\ PairKey(sorted_pairs[i], current_load) = PairKey(sorted_pairs[1], current_load)
           /\ sorted_pairs[i].reviewer < sorted_pairs[1].reviewer

\* Number of warnings of a kind in the returned list.
WarningsOfKind(kind) ==
    Cardinality({i \in DOMAIN all_warnings : all_warnings[i].kind = kind})

\* C26: when no developer of the roster can review, assign_reviewers returns
\* with every reviewer list empty, the history as it was passed, and one
\* global "No reviewers available in the team" warning, in both balance modes.
C26_NoReviewersAnywhere ==
    (pc = "done" /\ get_available_reviewers = <<>>) =>
        /\ \A d \in Names : Reviewers(d) = <<>>
        /\ history = pre_history
        /\ WarningsOfKind("no_reviewers_in_team") = 1

\* The list of d computed from d's own row of the history passed to the run
\* and from the inputs alone: the validated required reviewers, then the
\* passed candidates in roster order ranked by (team, knowledge, pair count).
OwnRowList(d) ==
    LET pool == Ordered(Passed(d))
        keys == [i \in DOMAIN pool |->
                    <<team_factor(d, pool[i]), KnowledgeFactor(d, pool[i]),
                      pre_history[d][pool[i]]>>]
        ranked == Take(StableSort(pool, keys), num_reviewers)
    IN  IF get_available_reviewers = <<>> THEN <<>>
        ELSE Take(required_assignments[d] \o
                  SelectSeq(ranked, LAMBDA c : c \notin Range(required_assignments[d])),
                  num_reviewers)

\* C27: with balance_mode false, the reviewer list of a developer depends
\* neither on the reviewers assigned to the developers processed earlier in
\* the run nor on the history rows of other developers: it is the list
\* computed from the developer's own history row and the inputs.
C27_Independent ==
    (pc \in {"select", "done"} /\ ~balance_mode) =>
        \A d \in 1..(idx - 1) : Reviewers(d) = OwnRowList(d)

\* The last developer was given a reviewer that earlier developers had loaded
\* more than a candidate of equal rank that was left out, in a run whose
\* history has a row of another developer.
C27_Witness ==
    /\ pc = "done" /\ ~balance_mode
    /\ \E d \in Names \ {LastSelected} : pre_history[d] # EmptyHistory[d]
    /\ \E c \in Range(Chosen(LastSelected)) :
       \E b \in Passed(LastSelected) \ Range(Chosen(LastSelected)) :
           /\ LoadBefore(c) > LoadBefore(b)
           /\ KeyBefore(b) = KeyBefore(c)

\* No name occurs twice in seq.
Distinct(seq) == \A i, j \in DOMAIN seq : seq[i] = seq[j] => i = j

\* C28: after assign_reviewers returns, no developer's reviewer list contains
\* the same name twice, whatever the requirement lists contain, in both
\* balance modes.
C28_DistinctReviewers ==
    pc = "done" => \A d \in Names : Distinct(Reviewers(d))

\* C29: a run of assign_reviewers never decreases a history count, leaves
\* unchanged the count of every (developer, reviewer) pair that is not part
\* of the final assignment, and never touches a pair whose developer or
\* reviewer is not in the roster.
C29_HistoryFrame ==
    /\ \A d, r \in Universe : history[d][r] >= pre_history[d][r]
    /\ pc = "done" =>
            \A d, r \in Universe :
                (d \notin Names \/ r \notin Names \/ r \notin Range(Reviewers(d)))
                    => history[d][r] = pre_history[d][r]

\* A finished run raised the count of an assigned pair and left alone the
\* earlier counts of a pair it did not assign and of a developer that is not
\* in the roster.
C29_Witness ==
    /\ pc = "done"
    /\ \E d \in Names : \E r \in Range(Reviewers(d)) :
           history[d][r] > pre_history[d][r]
    /\ \/ \E d \in Names : \E r \in Names \ Range(Reviewers(d)) :
              pre_history[d][r] > 0
       \/ \E r \in Names : pre_history[0][r] > 0

\* The validated required reviewers of d, as the inputs determine them.
ValidatedRequired(d) == validate_and_process_requirements.required_assignments[d]

\* The number of reviewers the inputs allow d: its validated required
\* reviewers and the eligible reviewers that are not in its requirement list,
\* up to the requested number.
ExpectedCount(d) ==
    LET available == Len(ValidatedRequired(d))
                     + Cardinality(Eligible(d) \ Range(requirements[d]))
    IN  IF available < num_reviewers THEN available ELSE num_reviewers

\* C30: whenever no developer has more than num_reviewers validated required
\* reviewers, balanced and non-balanced mode give every developer the same
\* number of reviewers for the same inputs: in either mode the number is the
\* one the inputs alone determine.
C30_SameCounts ==
    (pc = "done" /\ \A d \in Names : Len(ValidatedRequired(d)) <= num_reviewers)
    => \A d \in Names : Len(Reviewers(d)) = ExpectedCount(d)

\* A finished balanced run in which one developer has a validated required
\* reviewer, one got the requested number and one got fewer, within the
\* claim's condition.
C30_Witness ==
    /\ pc = "done" /\ balance_mode
    /\ \A d \in Names : Len(ValidatedRequired(d)) <= num_reviewers
    /\ \E d \in Names : ValidatedRequired(d) # <<>>
    /\ \E d \in Names : Len(Reviewers(d)) = num_reviewers
    /\ \E d \in Names : Len(Reviewers(d)) < num_reviewers /\ Reviewers(d) # <<>>

\* The same in a non-balanced run.
C30_WitnessNonBalanced ==
    /\ pc = "done" /\ ~balance_mode
    /\ \A d \in Names : Len(ValidatedRequired(d)) <= num_reviewers
    /\ \E d \in Names : ValidatedRequired(d) # <<>>
    /\ \E d \in Names : Len(Reviewers(d)) = num_reviewers
    /\ \E d \in Names : Len(Reviewers(d)) < num_reviewers /\ Reviewers(d) # <<>>

====
